---- MODULE Spec2Model ----
(***************************************************************************)
(* http-route: a handler wrapper that runs the wrapped handler only when   *)
(* the request meets a condition, overlaying the state the condition       *)
(* returns on the request and putting the previous state back when the     *)
(* handler calls its continuation.                                         *)
(*                                                                         *)
(* Strings are sequences of symbols.  "/", ":" and " " are the characters  *)
(* the code treats specially; every other symbol ("foo", "GET", "1", ...)  *)
(* stands for one ordinary character and is named for readability.         *)
(***************************************************************************)
EXTENDS Integers, Sequences, FiniteSets, TLC

VARIABLES rev, app, hasNext, phase, req, res, ctl, pending, log, restores

vars == <<rev, app, hasNext, phase, req, res, ctl, pending, log, restores>>

----------------------------------------------------------------------------
(* Bounds of the model                                                     *)

MaxPathLen == 4

----------------------------------------------------------------------------
(* JavaScript values held by request fields                                *)

EmptyObj == [k \in {} |-> <<>>]

Absent == [st |-> "absent", s |-> <<>>, o |-> EmptyObj]

Undefined == [st |-> "undef", s |-> <<>>, o |-> EmptyObj]

Str(s) == [st |-> "str", s |-> s, o |-> EmptyObj]

Obj(o) == [st |-> "obj", s |-> <<>>, o |-> o]

TrueVal == [st |-> "true", s |-> <<>>, o |-> EmptyObj]

\* !!v
Truthy(v) == (v.st = "str" /\ v.s # <<>>) \/ v.st = "obj" \/ v.st = "true"

\* object[name]: a missing property reads as undefined
Get(object, name) == IF object[name].st = "absent" THEN Undefined ELSE object[name]

\* the own enumerable properties of a value used as an object
Props(v) == IF v.st = "obj" THEN v.o ELSE EmptyObj

\* _.extend(dst, src) on plain objects: every property of src, copied over dst
ExtendObj(dst, src) ==
    [k \in DOMAIN dst \cup DOMAIN src |-> IF k \in DOMAIN src THEN src[k] ELSE dst[k]]

----------------------------------------------------------------------------
(* lib/path.js : createRE, normalizePath                                   *)

PARAM_REGEX == [lit |-> FALSE, ch |-> "([^/]+)"]

Lit(c) == [lit |-> TRUE, ch |-> c]

normalizePath(path) ==
    IF Len(path) = 0 \/ path[1] # "/" THEN <<"/">> \o path ELSE path

\* the length of the longest run of characters other than "/" from position j
RECURSIVE RunLen(_, _)
RunLen(str, j) ==
    IF j > Len(str) \/ str[j] = "/" THEN 0 ELSE 1 + RunLen(str, j + 1)

\* path.replace(/:([^/]+)/g, ...): the pattern with each :key replaced, and the keys
RECURSIVE ReplaceParams(_, _)
ReplaceParams(path, i) ==
    IF i > Len(path) THEN [pattern |-> <<>>, keys |-> <<>>]
    ELSE IF path[i] = ":" /\ RunLen(path, i + 1) > 0
         THEN LET n == RunLen(path, i + 1)
                  r == ReplaceParams(path, i + 1 + n)
              IN  [pattern |-> <<PARAM_REGEX>> \o r.pattern,
                   keys |-> <<SubSeq(path, i + 1, i + n)>> \o r.keys]
         ELSE LET r == ReplaceParams(path, i + 1)
              IN  [pattern |-> <<Lit(path[i])>> \o r.pattern, keys |-> r.keys]

\* a slip: the pattern is not anchored at the end when exact is asked for
createREPrefix(path, options) ==
    LET r == ReplaceParams(path, 1)
    IN  [pattern |-> r.pattern, keys |-> r.keys, exact |-> FALSE]

createRE(path, options) ==
    LET r == ReplaceParams(path, 1)
    IN  [pattern |-> r.pattern, keys |-> r.keys, exact |-> options.exact]

NoResults == [ok |-> FALSE, matched |-> 0, groups |-> <<>>]

\* RegExp.prototype.exec of "^" + pattern (+ "$"): backtracking, ([^/]+) greedy.
\* ReExec matches pattern[i..] at position j; ReParam tries a group of n characters,
\* longest first.
RECURSIVE ReExec(_, _, _, _)
RECURSIVE ReParam(_, _, _, _, _)
ReExec(re, i, str, j) ==
    IF i > Len(re.pattern)
    THEN IF re.exact /\ j # Len(str) + 1
         THEN NoResults
         ELSE [ok |-> TRUE, matched |-> j - 1, groups |-> <<>>]
    ELSE IF re.pattern[i].lit
         THEN IF j <= Len(str) /\ str[j] = re.pattern[i].ch
              THEN ReExec(re, i + 1, str, j + 1)
              ELSE NoResults
         ELSE ReParam(re, i, str, j, RunLen(str, j))

ReParam(re, i, str, j, n) ==
    IF n = 0 THEN NoResults
    ELSE LET r == ReExec(re, i + 1, str, j + n)
         IN  IF r.ok
             THEN [ok |-> TRUE, matched |-> r.matched,
                   groups |-> <<SubSeq(str, j, j + n - 1)>> \o r.groups]
             ELSE ReParam(re, i, str, j, n - 1)

exec(re, str) == ReExec(re, 1, str, 1)

\* a slip: the first value captured for a key is kept
RECURSIVE objectFirstWins(_, _)
objectFirstWins(keys, values) ==
    IF keys = <<>> \/ values = <<>> THEN EmptyObj
    ELSE ExtendObj(objectFirstWins(Tail(keys), Tail(values)),
                   [k \in {Head(keys)} |-> Head(values)])

\* _.object(keys, values): a later pair overwrites an earlier one with the same key
RECURSIVE object(_, _)
object(keys, values) ==
    IF keys = <<>> \/ values = <<>> THEN EmptyObj
    ELSE LET n == Len(keys)
             init == object(SubSeq(keys, 1, n - 1), SubSeq(values, 1, n - 1))
         IN  IF n > Len(values) THEN object(SubSeq(keys, 1, Len(values)), values)
             ELSE ExtendObj(init, [k \in {keys[n]} |-> values[n]])

----------------------------------------------------------------------------
(* The request object.  A request is a function from field names to values;  *)
(* a field the object does not have holds Absent.                            *)

Fields == {"method", "url", "originalUrl", "params", "isFooRoute", "user", "0"}

\* what a condition function returns: false, true, or an object of new state
False == [t |-> "false", props |-> EmptyObj]

True == [t |-> "true", props |-> EmptyObj]

State(props) == [t |-> "object", props |-> props]

\* a number other than 0 that a condition function returns: it has no keys
NumberState == [t |-> "number", props |-> EmptyObj]

\* a string of one character that a condition function returns: Object.keys
\* of a string are the indices of its characters
StringState(ch) == [t |-> "string", props |-> [k \in {"0"} |-> Str(<<ch>>)]]

\* a slip: the result of the condition is not looked at
IsTruthyAlways(state) == TRUE

\* Boolean(state)
IsTruthy(state) == state.t # "false"

\* connect.utils.parseUrl(req).pathname, for a url without a query string
pathname(rq) == rq["url"].s

\* a slip: the original url is never saved
SaveOriginalUrlNever(rq) == rq

\* a slip: the original url is saved again by every path condition that matches
SaveOriginalUrlAgain(rq) == [rq EXCEPT !["originalUrl"] = Get(rq, "url")]

\* lib/path.js 31-35: if ( ! req.originalUrl) req.originalUrl = req.url
SaveOriginalUrl(rq) ==
    IF ~Truthy(rq["originalUrl"])
    THEN [rq EXCEPT !["originalUrl"] = Get(rq, "url")]
    ELSE rq

\* lib/path.js createPathCondition(path, options)(req)
PathConditionModule(path0, options, rq) ==
    LET path == normalizePath(path0)
        pathRE == createRE(path, options)
        reqPath == pathname(rq)
        results == exec(pathRE, reqPath)
        rq1 == SaveOriginalUrl(rq)
        remaining == SubSeq(reqPath, results.matched + 1, Len(reqPath))
        params == object(pathRE.keys, results.groups)
    IN  IF ~results.ok
        THEN [state |-> False, rq |-> rq]
        ELSE [state |-> State(
                 [k \in {"url", "params"} |->
                     IF k = "url" THEN Str(normalizePath(remaining))
                     ELSE Obj(ExtendObj(Props(rq1["params"]), params))]),
              rq |-> rq1]

\* lib/condition.js createPathCondition(path, options)(req): the copy that
\* condition.js defines for itself
PathConditionInline(path0, options, rq) ==
    LET path == normalizePath(path0)
        pathRE == createRE(path, options)
        rq1 == IF ~Truthy(rq["params"])
               THEN [rq EXCEPT !["params"] = Obj(EmptyObj)]
               ELSE rq
        reqPath == pathname(rq1)
        results == exec(pathRE, reqPath)
        remaining == SubSeq(reqPath, results.matched + 1, Len(reqPath))
        params == object(pathRE.keys, results.groups)
    IN  IF ~results.ok
        THEN [state |-> False, rq |-> rq1]
        ELSE [state |-> State(
                 [k \in {"url", "params"} |->
                     IF k = "url" THEN Str(normalizePath(remaining))
                     ELSE Obj(ExtendObj(Props(rq1["params"]), params))]),
              rq |-> rq1]

\* the path condition of the revision r of the library
createPathCondition(r, path, options, rq) ==
    IF r = "path" THEN PathConditionModule(path, options, rq)
    ELSE PathConditionInline(path, options, rq)

\* a slip: the method is compared without regard to case
createMethodConditionAnyCase(method, rq) ==
    [state |-> IF \/ rq["method"] = Str(method)
                  \/ rq["method"] = Str(<<"get">>) /\ method = <<"GET">>
               THEN True ELSE False,
     rq |-> rq]

createMethodCondition(method, rq) ==
    [state |-> IF rq["method"] = Str(method) THEN True ELSE False, rq |-> rq]

----------------------------------------------------------------------------
(* lib/condition.js : parsing a condition into a condition function          *)

HTTP_METHODS ==
    << <<"HEAD">>, <<"GET">>, <<"POST">>, <<"PUT">>, <<"DELETE">>, <<"OPTIONS">>,
       <<"TRACE">>, <<"CONNECT">> >>

\* condition.split(/ /, 1)[0]: the text before the first space
RECURSIVE FirstPart(_)
FirstPart(condition) ==
    IF condition = <<>> \/ Head(condition) = " " THEN <<>>
    ELSE <<Head(condition)>> \o FirstPart(Tail(condition))

parseConditionStringIntoObject(condition) ==
    LET firstPart == FirstPart(condition)
        hasParts == Len(condition) > Len(firstPart)
        rest == SubSeq(condition, Len(firstPart) + 2, Len(condition))
    IN  IF hasParts
        THEN [method |-> Str(firstPart), mount |-> Absent, path |-> Str(rest)]
        ELSE IF \E i \in DOMAIN HTTP_METHODS : HTTP_METHODS[i] = firstPart
             THEN [method |-> Str(firstPart), mount |-> Absent, path |-> Absent]
             ELSE [method |-> Absent, mount |-> Str(firstPart), path |-> Absent]

\* the condition functions of a condition object, in the order they are pushed
parseConditionObject(obj) ==
    (IF Truthy(obj.method)
     THEN <<[c |-> "method", arg |-> obj.method.s, exact |-> FALSE]>> ELSE <<>>)
    \o (IF Truthy(obj.mount)
        THEN <<[c |-> "path", arg |-> obj.mount.s, exact |-> FALSE]>> ELSE <<>>)
    \o (IF Truthy(obj.path)
        THEN <<[c |-> "path", arg |-> obj.path.s, exact |-> TRUE]>> ELSE <<>>)

\* a slip: on a key two states have, the earlier state's value is kept
RECURSIVE mergeObjectsFirstWins(_)
mergeObjectsFirstWins(objects) ==
    IF objects = <<>> THEN EmptyObj
    ELSE ExtendObj(mergeObjectsFirstWins(Tail(objects)), Head(objects).props)

\* lib/merge.js mergeObjects(objects): _.extend({}, objects[0], objects[1], ...)
RECURSIVE mergeObjects(_)
mergeObjects(objects) ==
    IF objects = <<>> THEN EmptyObj
    ELSE ExtendObj(mergeObjects(SubSeq(objects, 1, Len(objects) - 1)),
                   objects[Len(objects)].props)

\* one condition function called on the request
ApplyCondition(r, c, rq) ==
    IF c.c = "method" THEN createMethodCondition(c.arg, rq)
    ELSE createPathCondition(r, c.arg, [exact |-> c.exact], rq)

\* the states so far, with the state one more condition returned
Mapped(m, one) == [states |-> Append(m.states, one.state), rq |-> one.rq]

\* a slip: the conditions after one that failed are not called
RECURSIVE MapConditionsShort(_, _, _)
MapConditionsShort(r, conditions, m) ==
    IF conditions = <<>> \/ (m.states # <<>> /\ ~IsTruthy(m.states[Len(m.states)]))
    THEN m
    ELSE MapConditionsShort(r, Tail(conditions),
                            Mapped(m, ApplyCondition(r, Head(conditions), m.rq)))

\* conditions.map(function(condition) { return condition(req); }): every
\* condition is called, in order, on the request the earlier ones left
RECURSIVE MapConditions(_, _, _)
MapConditions(r, conditions, m) ==
    IF conditions = <<>> THEN m
    ELSE MapConditions(r, Tail(conditions),
                       Mapped(m, ApplyCondition(r, Head(conditions), m.rq)))

\* states.every(Boolean) ? merge(states) : false
Combined(m) ==
    [state |-> IF \A i \in DOMAIN m.states : IsTruthy(m.states[i])
               THEN State(mergeObjects(m.states)) ELSE False,
     rq |-> m.rq]

combineConditions(r, conditions, rq) ==
    Combined(MapConditions(r, conditions, [states |-> <<>>, rq |-> rq]))

\* Condition specifications, as the caller writes them
FunctionCond(name) == [type |-> "function", fn |-> name]

StringCond(str) == [type |-> "string", str |-> str]

ObjectCond(method, mount, path) ==
    [type |-> "object", method |-> method, mount |-> mount, path |-> path]

ArrayCond(items) == [type |-> "array", items |-> items]

OtherCond(what) == [type |-> what]

\* getConditionType(condition).name; "TypeError" when no type matches and
\* .name is read from undefined
getConditionType(condition) ==
    CASE condition.type = "function" -> "function"
      [] condition.type = "string" -> "string"
      [] condition.type \in {"object", "array"} -> "object"
      [] OTHER -> "TypeError"

\* the properties method, mount and path of a condition object
ObjectOf(condition) ==
    IF condition.type = "object"
    THEN [method |-> condition.method, mount |-> condition.mount, path |-> condition.path]
    ELSE [method |-> Absent, mount |-> Absent, path |-> Absent]

\* createCondition(condition) throws
createConditionThrows(condition) ==
    \/ getConditionType(condition) = "TypeError"
    \/ condition.type = "string" /\ Len(condition.str) = 0

\* README.md condition functions
isWrite(rq) ==
    IF rq["method"] \in {Str(<<"PUT">>), Str(<<"POST">>), Str(<<"DELETE">>)}
    THEN True ELSE False

isFooRoute(rq) ==
    LET url == rq["url"].s
    IN  IF Len(url) >= 2 /\ SubSeq(url, 1, 2) = <<"/", "foo">>
        THEN State([k \in {"url", "isFooRoute"} |->
                       IF k = "url" THEN Str(SubSeq(url, 3, Len(url))) ELSE TrueVal])
        ELSE False

\* function(req) { return 1; }
returnsNumber(rq) == NumberState

\* function(req) { return "y"; }
returnsString(rq) == StringState("y")

\* a condition function called on the request
CallFunction(fn, rq) ==
    CASE fn = "isWrite" -> isWrite(rq)
      [] fn = "isFooRoute" -> isFooRoute(rq)
      [] fn = "returnsNumber" -> returnsNumber(rq)
      [] OTHER -> returnsString(rq)

\* createCondition(condition)(req), for a condition createCondition accepts
conditionFn(r, condition, rq) ==
    CASE getConditionType(condition) = "function" ->
           [state |-> CallFunction(condition.fn, rq), rq |-> rq]
      [] getConditionType(condition) = "string" ->
           combineConditions(r,
               parseConditionObject(parseConditionStringIntoObject(condition.str)), rq)
      [] OTHER ->
           combineConditions(r, parseConditionObject(ObjectOf(condition)), rq)

----------------------------------------------------------------------------
(* Handlers: what createRoute wraps and what it returns                      *)

\* a plain handler function(req, res, next)
Handler(name) == [kind |-> "fn", name |-> name]

\* createRoute(condition, app)
Route(condition, inner) == [kind |-> "route", condition |-> condition, app |-> inner]

\* connect().use(stack[1]).use(stack[2])... : an object with a handle method
Connect(stack) == [kind |-> "connect", stack |-> stack]

\* http.createServer(listener), or http.createServer() when listeners is empty
Server(listeners) == [kind |-> "server", listeners |-> listeners]

\* createRoute(condition) with no second argument
NoHandler == [kind |-> "absent"]

\* an object that is no function, has no handle method and is no http.Server
PlainObject == [kind |-> "object"]

\* handler.listeners('request')[0] of a server with no request listener
UndefinedFn == [kind |-> "undefined"]

\* lib/middleware.js createMiddleware(handler) throws
createMiddlewareThrows(handler) == handler.kind \notin {"fn", "route", "connect", "server"}

\* lib/middleware.js createMiddleware(handler): the function that is called
createMiddleware(handler) ==
    IF handler.kind = "server"
    THEN IF handler.listeners = <<>> THEN UndefinedFn ELSE handler.listeners[1]
    ELSE handler

\* building the application throws: createRoute's arguments are built first
RECURSIVE BuildThrows(_)
BuildThrows(node) ==
    CASE node.kind = "route" ->
           \/ BuildThrows(node.app)
           \/ createConditionThrows(node.condition)
           \/ createMiddlewareThrows(node.app)
      [] node.kind = "connect" -> \E i \in DOMAIN node.stack : BuildThrows(node.stack[i])
      [] node.kind = "server" ->
           \E i \in DOMAIN node.listeners : BuildThrows(node.listeners[i])
      [] OTHER -> FALSE

\* a slip: params is left out of what is saved, so it is never put back
extractButParams(obj, keys) == [name \in keys \ {"params"} |-> Get(obj, name)]

\* a slip: nothing is saved, so nothing is put back
extractNothing(obj, keys) == [name \in {} |-> Get(obj, name)]

\* lib/extract.js extractProperties(object, keys)
extract(obj, keys) == [name \in keys |-> Get(obj, name)]

\* _.extend(req, state)
extend(rq, props) == [f \in Fields |-> IF f \in DOMAIN props THEN props[f] ELSE rq[f]]

----------------------------------------------------------------------------
(* Continuations.  A continuation is the sequence of what runs when it is    *)
(* called, innermost first.                                                  *)

\* index.js 30-35: function(err) { _.extend(req, prevState); next(err); }
RestoreFrame(prevState) == [f |-> "restore", prevState |-> prevState]

\* the next of a connect stack: call stack[idx], or leave the stack
StackFrame(stack, idx) == [f |-> "stack", stack |-> stack, idx |-> idx]

\* a slip: with no continuation given, the route ends in one that does nothing
DefaultDoesNothing == [f |-> "out"]

\* index.js 18: send404.bind(null, req, res)
Send404Frame == [f |-> "send404"]

\* the continuation the caller of the outermost handler passed
OutFrame == [f |-> "out"]

NoNode == [kind |-> "none"]

CallHandle(node, k) == [op |-> "handle", node |-> node, k |-> k, err |-> "none"]

CallNext(k, err) == [op |-> "next", node |-> NoNode, k |-> k, err |-> err]

NewResponse == [statusCode |-> 200, contentType |-> "", body |-> "", ended |-> 0]

NewRequest(method, url) ==
    [f \in Fields |-> CASE f = "method" -> Str(method)
                        [] f = "url" -> Str(url)
                        [] OTHER -> Absent]

----------------------------------------------------------------------------
(* The inputs: applications, request methods and request urls                *)

Reqs == {1, 2}

RECURSIVE Strings(_, _)
Strings(alphabet, n) ==
    IF n = 0 THEN {<<>>}
    ELSE LET shorter == Strings(alphabet, n - 1)
         IN  shorter \cup {<<c>> \o t : c \in alphabet, t \in {u \in shorter : Len(u) = n - 1}}

PathSymbols == {"/", "foo", "bar"}

Urls ==
    {<<"/">> \o t : t \in Strings(PathSymbols, MaxPathLen - 1)}
    \cup {<<"/", "users", "/", "1">>, <<"/", "users", "/", "1", "/", "address", "/", "2">>}

Methods == {<<"GET">>, <<"POST">>, <<"HEAD">>, <<"get">>}

MethodStrings == {HTTP_METHODS[i] : i \in DOMAIN HTTP_METHODS}

LiteralMounts ==
    {<<"/">>, <<"/", "foo">>, <<"/", "bar">>, <<"/", "foo", "/", "bar">>, <<"/", "foo", "/">>}

ParamMounts ==
    {<<"/", ":", "id">>, <<"/", "users", "/", ":", "id">>,
     <<"/", "users", "/", ":", "id", "/", ":", "key", "/", ":", "id">>}

MethodPaths ==
    {<<"POST", " ", "/", "bar">>, <<"GET", " ", "/", "foo">>, <<"GET", " ", "/">>,
     <<"GET", " ", "/", ":", "key", "/", ":", "id">>}

\* "GET  /foo": method and path with two spaces between them
TwoSpaces == <<"GET", " ", " ", "/", "foo">>

ConditionStrings == MethodStrings \cup LiteralMounts \cup ParamMounts \cup MethodPaths

\* test/cases/mount.js 89-100
ReturnsUrlBack ==
    Connect(<<Route(StringCond(<<"/", "foo">>), Handler("h")), Handler("after")>>)

\* test/cases/params.js 35-42
NestedParams ==
    Connect(<<Handler("top"),
              Route(StringCond(<<"/", "users", "/", ":", "id">>),
                    Connect(<<Handler("nested1"),
                              Route(StringCond(<<"GET", " ", "/", ":", "key", "/", ":", "id">>),
                                    Handler("nested2")),
                              Handler("nested1")>>)),
              Handler("top")>>)

Conditions ==
    {StringCond(c) : c \in ConditionStrings}
    \cup {FunctionCond("isWrite"), FunctionCond("isFooRoute")}
    \cup {FunctionCond("returnsNumber"), FunctionCond("returnsString")}
    \cup {ObjectCond(Str(<<"GET">>), Str(<<"/", "foo">>), Absent),
          ObjectCond(Absent, Str(<<"/", "foo">>), Str(<<"/", "foo", "/", "bar">>)),
          ObjectCond(Absent, Absent, Absent),
          ObjectCond(Absent, Str(<<"/", ":", "id">>), Str(<<"/", ":", "key", "/", ":", "id">>))}
    \cup {ArrayCond(<<StringCond(<<"GET">>), StringCond(<<"/", "foo">>)>>)}
    \cup {StringCond(<<>>), OtherCond("number")}
    \cup {StringCond(TwoSpaces)}

\* the second argument of createRoute, besides a function and a connect stack
Targets ==
    {Server(<<Handler("h")>>), Server(<<Handler("h"), Handler("second")>>), Server(<<>>),
     NoHandler, PlainObject}

\* routes around a handler that writes on the request before it calls next
WriterApps ==
    {Route(c, Handler("writer")) :
        c \in {StringCond(<<"/", "foo">>), StringCond(<<"/", ":", "id">>),
               FunctionCond("isFooRoute")}}

NestedMounts == {<<"/", "foo">>, <<"/", "bar">>, <<"/", ":", "id">>}

Apps ==
    {Route(c, Handler("h")) : c \in Conditions}
    \cup {Route(StringCond(a), Route(StringCond(b), Handler("h"))) :
             a \in NestedMounts, b \in NestedMounts}
    \cup {ReturnsUrlBack, NestedParams}
    \cup WriterApps
    \cup {Route(StringCond(<<"/", "foo">>), target) : target \in Targets}
    \cup {Connect(<<Route(StringCond(<<"/", "foo">>), Server(<<>>)), Handler("after")>>)}

----------------------------------------------------------------------------
(* The state                                                                 *)
(*   rev      which copy of createPathCondition the build links              *)
(*   app      the handler given to the server                                *)
(*   hasNext  whether the server passes a continuation to the handler        *)
(*   phase    "init" before the application is built, then "serving" or     *)
(*            "threw"                                                         *)
(*   req,res  the request and response objects of each request               *)
(*   ctl      the calls still to run in the current turn, first first        *)
(*   pending  the continuations a handler kept, to call in a later turn      *)
(*   log      what handlers and continuations observed, in order             *)
(*   restores how many times a route put a saved state back on the request   *)

Event(ev, name, rq, err) == [ev |-> ev, name |-> name, rq |-> rq, err |-> err]

InitWith(revs, active) ==
    /\ rev \in revs
    /\ app \in Apps
    /\ hasNext \in BOOLEAN
    /\ phase = "init"
    /\ \E m \in Methods, u \in Urls :
          /\ req = [r \in Reqs |-> NewRequest(m, u)]
          /\ log = [r \in Reqs |->
                       IF r \in active
                       THEN <<Event("request", "", NewRequest(m, u), "none")>> ELSE <<>>]
    /\ res = [r \in Reqs |-> NewResponse]
    /\ ctl = [r \in Reqs |->
                 IF r \in active
                 THEN <<CallHandle(app, IF hasNext THEN <<OutFrame>> ELSE <<>>)>>
                 ELSE <<>>]
    /\ pending = [r \in Reqs |-> {}]
    /\ restores = [r \in Reqs |-> 0]

Init == InitWith({"path"}, {1})

----------------------------------------------------------------------------
(* The actions                                                               *)

Running(r) == phase = "serving" /\ ctl[r] # <<>>

Top(r) == Head(ctl[r])

\* replace the call being run by the calls it makes
Calls(r, calls) == ctl' = [ctl EXCEPT ![r] = calls \o Tail(ctl[r])]

Logged(r, ev, name, err) ==
    log' = [log EXCEPT ![r] = Append(log[r], Event(ev, name, req[r], err))]

\* index.js 9-12: createRoute(condition, app) for every route of the application
CreateRoute ==
    /\ phase = "init"
    /\ phase' = IF BuildThrows(app) THEN "threw" ELSE "serving"
    /\ UNCHANGED <<restores, rev, app, hasNext, req, res, ctl, pending, log>>

\* index.js 14-36: the handler createRoute returns
RouteHandle(r) ==
    /\ Running(r)
    /\ Top(r).op = "handle" /\ Top(r).node.kind = "route"
    /\ LET node == Top(r).node
           c == conditionFn(rev, node.condition, req[r])
           state == c.state
           isMatch == IsTruthy(state)
           next == IF Top(r).k # <<>> THEN Top(r).k ELSE <<Send404Frame>>
           stateKeys == DOMAIN state.props
           prevState == extract(c.rq, stateKeys)
       IN  IF ~isMatch
           THEN /\ req' = [req EXCEPT ![r] = c.rq]
                /\ Calls(r, <<CallNext(next, "none")>>)
           ELSE /\ req' = [req EXCEPT ![r] = extend(c.rq, state.props)]
                /\ Calls(r, <<CallHandle(createMiddleware(node.app),
                                         <<RestoreFrame(prevState)>> \o next)>>)
    /\ UNCHANGED <<restores, rev, app, hasNext, phase, res, pending, log>>

\* a slip: the previous state is not put back
RestoreNothing(rq, prevState) == rq

\* a slip: the saved state is kept where every dispatch of the route writes
\* it, and the second request's is the one that is left there
RestoreShared(rq, prevState) ==
    extend(rq, extract(log[2][1].rq, DOMAIN prevState))

\* a slip: the whole request is put back as it was received, not only the
\* keys of the state
RestoreEverything(rq, prevState) == log[1][1].rq

\* index.js 33: _.extend(req, prevState)
Restore(rq, prevState) == extend(rq, prevState)

\* a slip: the error is not passed on
NextErrDropped(err) == "none"

\* index.js 34: next(err), the argument the outer continuation is given
NextErr(err) == err

\* index.js 30-35: the continuation the route passes to the wrapped handler
RouteNext(r) ==
    /\ Running(r)
    /\ Top(r).op = "next" /\ Top(r).k # <<>> /\ Head(Top(r).k).f = "restore"
    /\ req' = [req EXCEPT ![r] = Restore(req[r], Head(Top(r).k).prevState)]
    /\ restores' = [restores EXCEPT ![r] = @ + 1]
    /\ Calls(r, <<CallNext(Tail(Top(r).k), NextErr(Top(r).err))>>)
    /\ UNCHANGED <<rev, app, hasNext, phase, res, pending, log>>

\* a slip: the body is written for HEAD requests too
NotFoundWithBody(rq, rs) ==
    [statusCode |-> 404, contentType |-> "text/plain", body |-> "Not Found",
     ended |-> rs.ended + 1]

\* lib/404.js 5-7: the response send404 writes
NotFound(rq, rs) ==
    [statusCode |-> 404, contentType |-> "text/plain",
     body |-> IF rq["method"] = Str(<<"HEAD">>) THEN "" ELSE "Not Found",
     ended |-> rs.ended + 1]

\* lib/404.js send404(req, res)
send404(r) ==
    /\ Running(r)
    /\ Top(r).op = "next" /\ Top(r).k # <<>> /\ Head(Top(r).k).f = "send404"
    /\ res' = [res EXCEPT ![r] = NotFound(req[r], res[r])]
    /\ Logged(r, "send404", "", Top(r).err)
    /\ Calls(r, <<>>)
    /\ UNCHANGED <<restores, rev, app, hasNext, phase, req, pending>>

\* the continuation of the caller of the outermost handler
Out(r) ==
    /\ Running(r)
    /\ Top(r).op = "next" /\ Top(r).k # <<>> /\ Head(Top(r).k).f = "out"
    /\ Logged(r, "out", "", Top(r).err)
    /\ Calls(r, <<>>)
    /\ UNCHANGED <<restores, rev, app, hasNext, phase, req, res, pending>>

\* handler.handle(req, res, next) of a connect stack: its first handler runs
ConnectHandle(r) ==
    /\ Running(r)
    /\ Top(r).op = "handle" /\ Top(r).node.kind = "connect"
    /\ Calls(r, <<CallNext(<<StackFrame(Top(r).node.stack, 1)>> \o Top(r).k, "none")>>)
    /\ UNCHANGED <<restores, rev, app, hasNext, phase, req, res, pending, log>>

\* the next of a connect stack: the following handler runs; after the last one,
\* or with an error, the stack is left through the continuation it was given,
\* or the stack answers itself when it was given none
ConnectNext(r) ==
    /\ Running(r)
    /\ Top(r).op = "next" /\ Top(r).k # <<>> /\ Head(Top(r).k).f = "stack"
    /\ LET fr == Head(Top(r).k)
           rest == Tail(Top(r).k)
       IN  IF Top(r).err = "none" /\ fr.idx <= Len(fr.stack)
           THEN /\ Calls(r, <<CallHandle(fr.stack[fr.idx],
                                         <<StackFrame(fr.stack, fr.idx + 1)>> \o rest)>>)
                /\ UNCHANGED <<res, log>>
           ELSE IF rest # <<>>
                THEN /\ Calls(r, <<CallNext(rest, Top(r).err)>>)
                     /\ UNCHANGED <<res, log>>
                ELSE /\ res' = [res EXCEPT ![r] =
                              [statusCode |-> IF Top(r).err = "none" THEN 404 ELSE 500,
                               contentType |-> "text/plain", body |-> "connect",
                               ended |-> @.ended + 1]]
                     /\ Logged(r, "connectEnd", "", Top(r).err)
                     /\ Calls(r, <<>>)
    /\ UNCHANGED <<restores, rev, app, hasNext, phase, req, pending>>

\* the frames of a continuation from the nearest connect stack outwards: the
\* stack catches what a handler it called throws and passes it to its next
RECURSIVE ToCatch(_)
ToCatch(k) ==
    IF k = <<>> THEN <<>>
    ELSE IF Head(k).f = "stack" THEN k ELSE ToCatch(Tail(k))

\* index.js 30: handle(req, res, ...) when handle is undefined: a TypeError is
\* thrown out of the route, with the state of the route still on the request
HandleUndefined(r) ==
    /\ Running(r)
    /\ Top(r).op = "handle" /\ Top(r).node.kind = "undefined"
    /\ Logged(r, "TypeError", "", "TypeError")
    /\ IF ToCatch(Top(r).k) = <<>>
       THEN ctl' = [ctl EXCEPT ![r] = <<>>]
       ELSE ctl' = [ctl EXCEPT ![r] = <<CallNext(ToCatch(Top(r).k), "TypeError")>>]
    /\ UNCHANGED <<restores, rev, app, hasNext, phase, req, res, pending>>

\* a plain handler runs and ends the response
HandlerEnd(r) ==
    /\ Running(r)
    /\ Top(r).op = "handle" /\ Top(r).node.kind = "fn" /\ Top(r).node.name # "writer"
    /\ Logged(r, "handler", Top(r).node.name, "none")
    /\ res' = [res EXCEPT ![r].ended = @ + 1]
    /\ Calls(r, <<>>)
    /\ UNCHANGED <<restores, rev, app, hasNext, phase, req, pending>>

\* a plain handler runs and calls next(err) before it returns
HandlerNext(r) ==
    /\ Running(r)
    /\ Top(r).op = "handle" /\ Top(r).node.kind = "fn" /\ Top(r).node.name # "writer"
    /\ \E err \in {"none", "boom"} :
          /\ Logged(r, "handler", Top(r).node.name, err)
          /\ Calls(r, <<CallNext(Top(r).k, err)>>)
    /\ UNCHANGED <<restores, rev, app, hasNext, phase, req, res, pending>>

\* a plain handler that a route called directly runs and calls next(err) twice
\* before it returns
HandlerTwice(r) ==
    /\ Running(r)
    /\ Top(r).op = "handle" /\ Top(r).node.kind = "fn" /\ Top(r).node.name # "writer"
    /\ Top(r).k # <<>> /\ ToCatch(Top(r).k) = <<>>
    /\ \E err \in {"none", "boom"} :
          /\ Logged(r, "handler", Top(r).node.name, err)
          /\ Calls(r, <<CallNext(Top(r).k, err), CallNext(Top(r).k, err)>>)
    /\ UNCHANGED <<restores, rev, app, hasNext, phase, req, res, pending>>

\* a plain handler runs and throws before it has called next: nothing in
\* index.js catches it, so it leaves the route as it leaves the handler
HandlerThrows(r) ==
    /\ Running(r)
    /\ Top(r).op = "handle" /\ Top(r).node.kind = "fn" /\ Top(r).node.name # "writer"
    /\ Logged(r, "handler", Top(r).node.name, "thrown")
    /\ IF ToCatch(Top(r).k) = <<>>
       THEN ctl' = [ctl EXCEPT ![r] = <<>>]
       ELSE ctl' = [ctl EXCEPT ![r] = <<CallNext(ToCatch(Top(r).k), "thrown")>>]
    /\ UNCHANGED <<restores, rev, app, hasNext, phase, req, res, pending>>

\* what the handler named writer leaves on the request: it assigns req.url,
\* more than once, and req.user
Written(rq) ==
    [rq EXCEPT !["url"] = Str(<<"/", "written">>), !["user"] = Str(<<"me">>)]

\* a handler that writes on the request runs and calls next()
HandlerWrites(r) ==
    /\ Running(r)
    /\ Top(r).op = "handle" /\ Top(r).node.kind = "fn" /\ Top(r).node.name = "writer"
    /\ Logged(r, "handler", Top(r).node.name, "none")
    /\ req' = [req EXCEPT ![r] = Written(req[r])]
    /\ Calls(r, <<CallNext(Top(r).k, "none")>>)
    /\ UNCHANGED <<restores, rev, app, hasNext, phase, res, pending>>

\* a plain handler runs and keeps next, to call it in a later turn
HandlerLater(r) ==
    /\ Running(r)
    /\ Top(r).op = "handle" /\ Top(r).node.kind = "fn" /\ Top(r).node.name # "writer"
    /\ \E err \in {"none", "boom"} :
          /\ Logged(r, "handler", Top(r).node.name, err)
          /\ pending' = [pending EXCEPT ![r] = @ \cup {[k |-> Top(r).k, err |-> err]}]
    /\ Calls(r, <<>>)
    /\ UNCHANGED <<restores, rev, app, hasNext, phase, req, res>>

\* a later turn: a kept continuation is called
Later(r) ==
    /\ phase = "serving"
    /\ \A q \in Reqs : ctl[q] = <<>>
    /\ \E p \in pending[r] :
          /\ pending' = [pending EXCEPT ![r] = @ \ {p}]
          /\ ctl' = [ctl EXCEPT ![r] = <<CallNext(p.k, p.err)>>]
          /\ Logged(r, "later", "", p.err)
    /\ UNCHANGED <<restores, rev, app, hasNext, phase, req, res>>

Next ==
    \/ CreateRoute
    \/ \E r \in Reqs : RouteHandle(r)
    \/ \E r \in Reqs : RouteNext(r)
    \/ \E r \in Reqs : send404(r)
    \/ \E r \in Reqs : Out(r)
    \/ \E r \in Reqs : ConnectHandle(r)
    \/ \E r \in Reqs : ConnectNext(r)
    \/ \E r \in Reqs : HandleUndefined(r)
    \/ \E r \in Reqs : HandlerEnd(r)
    \/ \E r \in Reqs : HandlerNext(r)
    \/ \E r \in Reqs : HandlerTwice(r)
    \/ \E r \in Reqs : HandlerThrows(r)
    \/ \E r \in Reqs : HandlerWrites(r)
    \/ \E r \in Reqs : HandlerLater(r)
    \/ \E r \in Reqs : Later(r)

Spec == Init /\ [][Next]_vars

\* the build in which lib/condition.js uses its own copy of createPathCondition
InitInline == InitWith({"inline"}, {1})

SpecInline == InitInline /\ [][Next]_vars

\* two requests in flight through the same application
ConcurrentUrls == {<<"/", "foo", "/", "bar">>, <<"/", "foo">>, <<"/", "bar">>}

ConcurrentMethods == {<<"GET">>, <<"POST">>}

ConcurrentApps ==
    {Route(StringCond(<<"/", "foo">>), Handler("h")),
     Route(StringCond(<<"/", ":", "id">>), Handler("h")),
     Route(StringCond(<<"GET", " ", "/", "foo">>), Handler("h")),
     Route(FunctionCond("isFooRoute"), Handler("h")),
     Route(StringCond(<<"/", "foo">>), Route(StringCond(<<"/", ":", "id">>), Handler("h"))),
     ReturnsUrlBack,
     Route(StringCond(<<"/", "foo">>), Server(<<>>)),
     Route(StringCond(<<"/", "foo">>), Handler("writer"))}

InitConcurrent ==
    /\ rev = "path"
    /\ app \in ConcurrentApps
    /\ hasNext \in BOOLEAN
    /\ phase = "init"
    /\ \E m \in [Reqs -> ConcurrentMethods], u \in [Reqs -> ConcurrentUrls] :
          /\ req = [r \in Reqs |-> NewRequest(m[r], u[r])]
          /\ log = [r \in Reqs |-> <<Event("request", "", NewRequest(m[r], u[r]), "none")>>]
    /\ res = [r \in Reqs |-> NewResponse]
    /\ ctl = [r \in Reqs |-> <<CallHandle(app, IF hasNext THEN <<OutFrame>> ELSE <<>>)>>]
    /\ pending = [r \in Reqs |-> {}]
    /\ restores = [r \in Reqs |-> 0]

SpecConcurrent == InitConcurrent /\ [][Next]_vars

----------------------------------------------------------------------------
(* What the properties speak of                                              *)

\* the request as the server received it
Request0(r) == log[r][1].rq

Url0(r) == Request0(r)["url"].s

Method0(r) == Request0(r)["method"].s

\* the outermost handler has run
Dispatched(r) ==
    /\ phase = "serving"
    /\ ctl[r] # <<CallHandle(app, IF hasNext THEN <<OutFrame>> ELSE <<>>)>>

\* nothing is left to run for the request, now or in a later turn
Finished(r) == Dispatched(r) /\ ctl[r] = <<>> /\ pending[r] = {}

\* the wrapped handler of a single route is being called, or has been
HandlerCalled(r) ==
    \/ Len(log[r]) >= 2 /\ log[r][2].ev = "handler"
    \/ Len(log[r]) = 1 /\ ctl[r] # <<>> /\ Top(r).op = "handle" /\ Top(r).node.kind = "fn"

\* the request as the first handler called finds it
SeenByHandler(r) == IF Len(log[r]) >= 2 THEN log[r][2].rq ELSE req[r]

\* the events of the log that are calls of an outermost continuation
Continued(r) == {i \in DOMAIN log[r] : log[r][i].ev \in {"out", "send404"}}

\* url is the literal prefix followed by a suffix that starts with "/"
MountedUnder(prefix, url) ==
    /\ Len(url) > Len(prefix)
    /\ SubSeq(url, 1, Len(prefix)) = prefix
    /\ url[Len(prefix) + 1] = "/"

SingleRoute(condition) == Route(condition, Handler("h"))

----------------------------------------------------------------------------
----------------------------------------------------------------------------
\* C2: when the outer continuation runs after the handler called its
\* continuation, in the same turn or a later one, every field the route
\* overlaid reads as it did before the dispatch; a handler that follows the
\* route in a stack finds the full original url.
PatchedFields == {"url", "params", "isFooRoute"}

----------------------------------------------------------------------------
\* Requests that a single route's condition does not match.  The first three
\* cases are said without the code: a literal mount that is no prefix of the
\* url, a method string that is not the request's method, isWrite on a request
\* that does not write.  The last is every request for which the condition
\* function of the route returns a falsy value.
IsPrefix(prefix, url) ==
    Len(url) >= Len(prefix) /\ SubSeq(url, 1, Len(prefix)) = prefix

NoMatchCase(r) ==
    \/ \E P \in LiteralMounts :
          app = SingleRoute(StringCond(P)) /\ ~IsPrefix(P, Url0(r))
    \/ \E M \in MethodStrings :
          app = SingleRoute(StringCond(M)) /\ Method0(r) # M
    \/ /\ app = SingleRoute(FunctionCond("isWrite"))
       /\ Method0(r) \notin {<<"PUT">>, <<"POST">>, <<"DELETE">>}
    \/ \E c \in Conditions :
          /\ app = SingleRoute(c) /\ ~createConditionThrows(c)
          /\ ~IsTruthy(conditionFn(rev, c, Request0(r)).state)

\* C3: when the condition does not match, the wrapped handler is never
\* called and the continuation is called exactly once, with no error.
C3_NoMatchFallsThrough ==
    NoMatchCase(1) =>
        /\ \A i \in DOMAIN log[1] : log[1][i].ev # "handler"
        /\ pending[1] = {}
        /\ \A i \in Continued(1) : log[1][i].err = "none"
        /\ Cardinality(Continued(1)) <= 1
        /\ Dispatched(1) =>
              \/ Cardinality(Continued(1)) = 1 /\ ctl[1] = <<>>
              \/ /\ Continued(1) = {}
                 /\ ctl[1] = <<CallNext(IF hasNext THEN <<OutFrame>> ELSE <<Send404Frame>>,
                                        "none")>>

C3_Witness ==
    /\ app = SingleRoute(StringCond(<<"/", "foo">>))
    /\ Url0(1) = <<"/", "bar", "/", "foo">> /\ Method0(1) = <<"POST">>
    /\ hasNext /\ Finished(1)
    /\ Len(log[1]) = 2 /\ log[1][2].ev = "out" /\ log[1][2].err = "none"

----------------------------------------------------------------------------
\* C4: with no continuation supplied and a condition that does not match, the
\* route answers 404, Content-Type text/plain, body "Not Found", and an empty
\* body for HEAD.
C4_Default404 ==
    (NoMatchCase(1) /\ ~hasNext /\ Finished(1)) =>
        /\ res[1] = [statusCode |-> 404, contentType |-> "text/plain",
                     body |-> IF Method0(1) = <<"HEAD">> THEN "" ELSE "Not Found",
                     ended |-> 1]
        /\ Len(log[1]) = 2 /\ log[1][2].ev = "send404"

C4_Witness ==
    /\ NoMatchCase(1) /\ ~hasNext /\ Finished(1)
    /\ Method0(1) = <<"HEAD">>
    /\ res[1].statusCode = 404 /\ res[1].body = "" /\ res[1].ended = 1

----------------------------------------------------------------------------
\* C5: a route built from a method-only string M matches a request iff the
\* request's method is exactly M, whatever its path, and the handler finds the
\* request as it was received.
C5_MethodOnly ==
    \A M \in MethodStrings :
        (app = SingleRoute(StringCond(M)) /\ Dispatched(1)) =>
            /\ HandlerCalled(1) <=> Method0(1) = M
            /\ HandlerCalled(1) => SeenByHandler(1) = Request0(1)

C5_Witness ==
    /\ app = SingleRoute(StringCond(<<"GET">>))
    /\ Method0(1) = <<"GET">> /\ Url0(1) = <<"/", "foo", "/", "bar">>
    /\ Len(log[1]) >= 2 /\ log[1][2].ev = "handler" /\ log[1][2].rq = Request0(1)

----------------------------------------------------------------------------
\* C6: originalUrl is set once, to the full url of the request as received;
\* no later or nested route overwrites it and no unwind reverts it.  With
\* route(a, route(b, h)) and the url a + b the handler finds url = "/" and
\* originalUrl = a + b.
OriginalUrlIsFull ==
    /\ req[1]["originalUrl"] \in {Absent, Str(Url0(1))}
    /\ \A i \in DOMAIN log[1] :
          /\ log[1][i].rq["originalUrl"] \in {Absent, Str(Url0(1))}
          /\ \A j \in DOMAIN log[1] :
                (i < j /\ log[1][i].rq["originalUrl"] # Absent)
                => log[1][j].rq["originalUrl"] = log[1][i].rq["originalUrl"]
    /\ \A a \in {<<"/", "foo">>, <<"/", "bar">>}, b \in {<<"/", "foo">>, <<"/", "bar">>} :
          ( /\ app = Route(StringCond(a), Route(StringCond(b), Handler("h")))
            /\ Url0(1) = a \o b
            /\ Len(log[1]) >= 2 )
          => /\ log[1][2].ev = "handler"
             /\ log[1][2].rq["url"] = Str(<<"/">>)
             /\ log[1][2].rq["originalUrl"] = Str(a \o b)
    /\ \A P \in LiteralMounts \cup ParamMounts, i \in DOMAIN log[1] :
          ( /\ app.kind = "route" /\ app.condition = StringCond(P)
            /\ log[1][i].ev = "handler" )
          => log[1][i].rq["originalUrl"] = Str(Url0(1))

OriginalUrlKept ==
    req[1]["originalUrl"] # Absent => req'[1]["originalUrl"] = req[1]["originalUrl"]

----------------------------------------------------------------------------
\* C7: when a template repeats a parameter name, params holds the value its
\* last occurrence captured; the captured values are aligned left to right
\* with the names of the template (/users/:id/:key/:id on /users/1/address/2
\* gives id = "2" and key = "address").
\* The expected params are said by segments: the path is cut at every "/".
RECURSIVE Segments(_)
Segments(path) ==
    IF path = <<>> THEN <<>>
    ELSE LET n == RunLen(path, 2)
         IN  <<SubSeq(path, 2, n + 1)>> \o Segments(SubSeq(path, n + 2, Len(path)))

IsParam(segment) == Len(segment) > 1 /\ segment[1] = ":"

ExpectedParams(template, url) ==
    LET t == Segments(template)
        u == Segments(url)
        names == {Tail(t[i]) : i \in {j \in DOMAIN t : IsParam(t[j])}}
    IN  [n \in names |->
            u[CHOOSE i \in DOMAIN t :
                 /\ t[i] = <<":">> \o n
                 /\ \A j \in DOMAIN t : t[j] = <<":">> \o n => j <= i]]

C7_LastParamWins ==
    \A P \in ParamMounts :
        ( /\ app = SingleRoute(StringCond(P))
          /\ Len(log[1]) >= 2 /\ log[1][2].ev = "handler" )
        => log[1][2].rq["params"] = Obj(ExpectedParams(P, Url0(1)))

C7_Witness ==
    /\ app = SingleRoute(StringCond(
                 <<"/", "users", "/", ":", "id", "/", ":", "key", "/", ":", "id">>))
    /\ Url0(1) = <<"/", "users", "/", "1", "/", "address", "/", "2">>
    /\ Len(log[1]) >= 2 /\ log[1][2].ev = "handler"
    /\ log[1][2].rq["params"].st = "obj"
    /\ DOMAIN log[1][2].rq["params"].o = {<<"id">>, <<"key">>}
    /\ log[1][2].rq["params"].o[<<"id">>] = <<"2">>
    /\ log[1][2].rq["params"].o[<<"key">>] = <<"address">>

----------------------------------------------------------------------------
\* the handlers of the nested-params application, in the order they ran
HandlerEvents(r) == SelectSeq(log[r], LAMBDA e : e.ev = "handler")

IsUndefined(v) == v = Absent \/ v = Undefined

\* params as a handler inside /users/:id, and one inside its /:key/:id, reads it
ParamsOfLevel(name, url) ==
    LET u == Segments(url)
    IN  IF name = "nested1"
        THEN Obj([n \in {<<"id">>} |-> u[2]])
        ELSE Obj([n \in {<<"id">>, <<"key">>} |->
                     IF n = <<"id">> THEN u[4] ELSE u[3]])

\* C8: params is scoped to the nesting level: a handler outside every route
\* observes params undefined, before the route and after the route has
\* unwound; a handler inside the /users/:id mount observes exactly its id,
\* before and after the inner route ran; a handler inside the nested
\* /:key/:id match observes exactly key and id of the inner capture.
C8_ParamsScoped ==
    app = NestedParams =>
        \A i \in DOMAIN HandlerEvents(1) :
            LET e == HandlerEvents(1)[i]
            IN  IF e.name = "top"
                THEN IsUndefined(e.rq["params"])
                ELSE e.rq["params"] = ParamsOfLevel(e.name, Url0(1))

\* C8, as lib/condition.js 142-172 behaves: the route's condition leaves
\* params = {} on the request before it matches, and that is the value the
\* route saves and puts back, so the handler after the route observes {}
\* where the handler before it observed undefined.
C8_ParamsLeftEmpty ==
    app = NestedParams =>
        \A i \in DOMAIN HandlerEvents(1) :
            LET e == HandlerEvents(1)[i]
            IN  IF e.name = "top"
                THEN IF i = 1 THEN IsUndefined(e.rq["params"])
                     ELSE e.rq["params"] = Obj(EmptyObj)
                ELSE e.rq["params"] = ParamsOfLevel(e.name, Url0(1))

C8_Witness ==
    /\ app = NestedParams
    /\ Url0(1) = <<"/", "users", "/", "1", "/", "address", "/", "2">>
    /\ Method0(1) = <<"GET">>
    /\ Len(HandlerEvents(1)) = 5
    /\ HandlerEvents(1)[3].name = "nested2"
    /\ HandlerEvents(1)[3].rq["params"] =
           Obj([n \in {<<"id">>, <<"key">>} |->
                   IF n = <<"id">> THEN <<"2">> ELSE <<"address">>])
    /\ HandlerEvents(1)[4].rq["params"] = Obj([n \in {<<"id">>} |-> <<"1">>])
    /\ HandlerEvents(1)[5].name = "top"
    /\ HandlerEvents(1)[5].rq["params"] = Obj(EmptyObj)

----------------------------------------------------------------------------
\* README.md 101-104: a route whose condition is an array of conditions
ArrayRoute ==
    SingleRoute(ArrayCond(<<StringCond(<<"GET">>), StringCond(<<"/", "foo">>)>>))

\* C9: a condition given as an array of conditions matches a request only if
\* every condition of the array matches it; a request that fails one of them
\* does not reach the handler.
C9_ArrayIsAnd ==
    (app = ArrayRoute /\ HandlerCalled(1)) =>
        \A i \in DOMAIN ArrayRoute.condition.items :
            IsTruthy(conditionFn(rev, ArrayRoute.condition.items[i], Request0(1)).state)

\* C9, as lib/condition.js 8-49 and 98-114 behave: an array is parsed as a
\* condition object; it has no method, mount or path, so no condition is
\* built from it and every request reaches the handler, unchanged.
C9_ArrayMatchesEveryRequest ==
    (app = ArrayRoute /\ Dispatched(1)) =>
        /\ HandlerCalled(1)
        /\ SeenByHandler(1) = Request0(1)

C9_Witness ==
    /\ app = ArrayRoute
    /\ Method0(1) = <<"POST">> /\ Url0(1) = <<"/", "bar">>
    /\ Len(log[1]) >= 2 /\ log[1][2].ev = "handler" /\ log[1][2].name = "h"
    /\ log[1][2].rq = Request0(1)

----------------------------------------------------------------------------
\* the templates of the two-part strings of ConditionStrings
ExactPaths ==
    {<<"/", "bar">>, <<"/", "foo">>, <<"/">>, <<"/", ":", "key", "/", ":", "id">>}

\* the path has the template's segments, one for one: a literal segment is
\* equal, a parameter stands for a segment that is not empty
MatchesExactly(template, path) ==
    LET t == Segments(template)
        u == Segments(path)
    IN  /\ Len(u) = Len(t)
        /\ \A i \in DOMAIN t : IF IsParam(t[i]) THEN u[i] # <<>> ELSE u[i] = t[i]

\* C10: a two-part string condition "M P" matches a request iff its method is
\* M and its path matches the template P from start to end, with no suffix
\* left (/bar/baz does not match "POST /bar"); on a match the handler finds
\* the url "/".
C10_MethodAndExactPath ==
    \A M \in MethodStrings, P \in ExactPaths :
        (app = SingleRoute(StringCond(M \o <<" ">> \o P)) /\ Dispatched(1)) =>
            /\ HandlerCalled(1) <=> (Method0(1) = M /\ MatchesExactly(P, Url0(1)))
            /\ HandlerCalled(1) => SeenByHandler(1)["url"] = Str(<<"/">>)

C10_Witness ==
    /\ app = SingleRoute(StringCond(<<"POST", " ", "/", "bar">>))
    /\ Method0(1) = <<"POST">> /\ Url0(1) = <<"/", "bar">>
    /\ Len(log[1]) >= 2 /\ log[1][2].ev = "handler"
    /\ log[1][2].rq["url"] = Str(<<"/">>)

----------------------------------------------------------------------------
\* the literal mounts that do not end with "/"
OpenMounts == {<<"/", "foo">>, <<"/", "bar">>, <<"/", "foo", "/", "bar">>}

\* C11: a mount matches only on a "/" boundary: when what is left of the path
\* after the prefix is not empty and does not start with "/", the condition
\* does not match and the handler is not called (/foobar under /foo).
C11_MountOnBoundary ==
    \A P \in OpenMounts :
        (app = SingleRoute(StringCond(P)) /\ HandlerCalled(1)) =>
            \/ Url0(1) = P
            \/ MountedUnder(P, Url0(1))

\* C11, as lib/path.js 22-52 behaves: the regular expression of a mount is
\* "^" + path with nothing after it, so every path that begins with the text
\* of the mount matches, and what is left is given a leading "/".
C11_MountOnAnyPrefix ==
    \A P \in OpenMounts :
        (app = SingleRoute(StringCond(P)) /\ Dispatched(1)) =>
            /\ HandlerCalled(1) <=> IsPrefix(P, Url0(1))
            /\ ( /\ HandlerCalled(1)
                 /\ Len(Url0(1)) > Len(P)
                 /\ Url0(1)[Len(P) + 1] # "/" )
               => SeenByHandler(1)["url"] =
                     Str(<<"/">> \o SubSeq(Url0(1), Len(P) + 1, Len(Url0(1))))

C11_Witness ==
    /\ app = SingleRoute(StringCond(<<"/", "foo">>))
    /\ Url0(1) = <<"/", "foo", "bar">>
    /\ Len(log[1]) >= 2 /\ log[1][2].ev = "handler"
    /\ log[1][2].rq["url"] = Str(<<"/", "bar">>)

----------------------------------------------------------------------------
\* a condition object with none of the keys method, mount, path: {}
EmptyObjectCond == ObjectCond(Absent, Absent, Absent)

\* the conditions of the model that are neither a function, a non-empty
\* string, nor an object with one of the keys method, mount, path
InvalidCondition(c) ==
    \/ c = StringCond(<<>>)
    \/ c = EmptyObjectCond
    \/ c.type \notin {"function", "string", "object", "array"}

\* C12: createRoute throws at construction for every condition that is neither
\* a function, a non-empty string, nor an object with at least one of the keys
\* method, mount, path; no such condition yields a usable route.
C12_InvalidConditionThrows ==
    \A c \in Conditions :
        (app = SingleRoute(c) /\ InvalidCondition(c) /\ phase # "init")
        => phase = "threw"

\* C12, as lib/condition.js 8-30 and 98-114 behave: the empty string and a
\* value that is not an object throw at construction; the object {} builds a
\* route whose condition matches every request.
C12_EmptyObjectBuilds ==
    \A c \in Conditions :
        (app = SingleRoute(c) /\ phase # "init") =>
            /\ phase = "threw" <=> (c = StringCond(<<>>) \/ c = OtherCond("number"))
            /\ (c = EmptyObjectCond /\ Dispatched(1)) =>
                  /\ HandlerCalled(1)
                  /\ SeenByHandler(1) = Request0(1)

C12_Witness ==
    /\ app = SingleRoute(EmptyObjectCond)
    /\ phase = "serving"
    /\ Method0(1) = <<"POST">> /\ Url0(1) = <<"/", "bar">>
    /\ Len(log[1]) >= 2 /\ log[1][2].ev = "handler"

----------------------------------------------------------------------------
\* the targets that have none of the three shapes: absent, an object of no
\* known shape, a server with no request listener to unwrap
InvalidTarget(target) == target \in {NoHandler, PlainObject, Server(<<>>)}

MountedRoute(target) == Route(StringCond(<<"/", "foo">>), target)

FailsAtDispatch(r) == \E i \in DOMAIN log[r] : log[r][i].ev = "TypeError"

\* C13: the handler target is resolved at construction: a function is taken
\* as is, an object with a handle method is wrapped, a server is unwrapped to
\* its request listener; an absent target or one of no such shape makes
\* createRoute throw, so no route that was built fails at dispatch because
\* of its target.
C13_InvalidTargetThrows ==
    /\ \A target \in Targets :
          (app = MountedRoute(target) /\ InvalidTarget(target) /\ phase # "init")
          => phase = "threw"
    /\ ~FailsAtDispatch(1)

\* C13, as lib/middleware.js (src/lib/extract.js 15-39) behaves: an absent
\* target and an object of no known shape throw at construction; a server is
\* unwrapped to its first request listener; a server with no request listener
\* is unwrapped to undefined, the route is built, and the first request the
\* condition matches throws a TypeError at index.js 30.
C13_ServerWithoutListenerBuilds ==
    \A target \in Targets :
        (app = MountedRoute(target) /\ phase # "init") =>
            /\ phase = "threw" <=> target \in {NoHandler, PlainObject}
            /\ (Dispatched(1) /\ IsPrefix(<<"/", "foo">>, Url0(1))) =>
                  IF target = Server(<<>>)
                  THEN /\ ~HandlerCalled(1)
                       /\ ctl[1] = <<>> => (Len(log[1]) = 2 /\ log[1][2].ev = "TypeError")
                  ELSE HandlerCalled(1) /\ ~FailsAtDispatch(1)

C13_Witness ==
    /\ app = MountedRoute(Server(<<>>))
    /\ phase = "serving"
    /\ Url0(1) = <<"/", "foo", "/", "bar">>
    /\ Len(log[1]) = 2 /\ log[1][2].ev = "TypeError"
    /\ log[1][2].rq["url"] = Str(<<"/", "bar">>)

----------------------------------------------------------------------------
----------------------------------------------------------------------------
\* the wrapped handler of the route has run
Matched(r) == \E i \in DOMAIN log[r] : log[r][i].ev = "handler"

\* C15: for every matched dispatch the saved state is put back exactly once,
\* however many times (zero, one or several) the handler calls the
\* continuation it was given: a second call does not restore again.
C15_RestoredExactlyOnce ==
    \A c \in Conditions :
        (app = SingleRoute(c) /\ Matched(1)) =>
            /\ restores[1] <= 1
            /\ Finished(1) => restores[1] = 1

\* C15, as index.js 30-35 behaves: the continuation keeps no record of having
\* run; every call of it puts the saved state back and calls the outer
\* continuation, and a handler that never calls it leaves the state of the
\* route on the request.
C15_RestoredOnEveryCall ==
    \A c \in Conditions :
        (app = SingleRoute(c) /\ Matched(1) /\ Finished(1)) =>
            /\ restores[1] = Cardinality(Continued(1))
            /\ restores[1] \in 0..2

C15_Witness ==
    /\ app = SingleRoute(StringCond(<<"/", "foo">>))
    /\ Url0(1) = <<"/", "foo", "/", "bar">>
    /\ hasNext /\ Finished(1)
    /\ restores[1] = 2
    /\ Len(log[1]) = 4
    /\ log[1][2].ev = "handler"
    /\ log[1][3].ev = "out" /\ log[1][4].ev = "out"

----------------------------------------------------------------------------
\* what the handler of a single route finds on a request, from that request alone
Overlaid(c, rq) ==
    extend(conditionFn(rev, c, rq).rq, conditionFn(rev, c, rq).state.props)

\* every observation of request r is decided by request r alone
OwnDispatch(r) ==
    /\ \A i \in DOMAIN log[r] :
          /\ ( /\ app.kind = "route" /\ app.app = Handler("h")
               /\ log[r][i].ev = "handler" )
             => log[r][i].rq = Overlaid(app.condition, Request0(r))
          /\ ( /\ app.kind = "route" /\ log[r][i].ev \in {"out", "send404"}
               /\ \E j \in 1..(i - 1) : log[r][j].ev = "handler" )
             => \A f \in PatchedFields : Get(log[r][i].rq, f) = Get(Request0(r), f)
          /\ ( /\ app = ReturnsUrlBack
               /\ log[r][i].ev = "handler" /\ log[r][i].name = "after" )
             => log[r][i].rq["url"] = Str(Url0(r))
    /\ req[r]["method"] = Request0(r)["method"]

RouteUnchanged == app' = app /\ rev' = rev

----------------------------------------------------------------------------
\* the outer continuation of a route with path parameters was called after
\* its handler ran: log[r][i] is the call, log[r][j] the handler
Unwound(r, i, j) ==
    /\ \E P \in ParamMounts : app = SingleRoute(StringCond(P))
    /\ i \in Continued(r) /\ j \in 1..(i - 1)
    /\ log[r][j].ev = "handler"

----------------------------------------------------------------------------
----------------------------------------------------------------------------
\* the condition functions a string or object condition is parsed into
Evaluators(c) ==
    parseConditionObject(IF c.type = "string"
                         THEN parseConditionStringIntoObject(c.str)
                         ELSE ObjectOf(c))

\* the conditions of the model that combine two condition functions or more
CombinedConditions ==
    {c \in Conditions : /\ c.type \in {"string", "object"}
                        /\ ~createConditionThrows(c)
                        /\ Len(Evaluators(c)) >= 2}

\* what condition function k of c returns for the request as it was received
Alone(c, k, r) == ApplyCondition(rev, Evaluators(c)[k], Request0(r)).state

----------------------------------------------------------------------------
\* the condition objects of the model that have a mount and a path
MountAndPath == {c \in Conditions : c.type = "object" /\ c.mount # Absent /\ c.path # Absent}

\* C20: on a match the states are merged in the order method, mount, path, a
\* later one overwriting an earlier one on the same key: for an object with
\* mount and path both are matched against the same url, as received, and
\* the handler finds the url and the params of the exact path, not the
\* mount's.
C20_PathOverridesMount ==
    \A c \in MountAndPath :
        (app = SingleRoute(c) /\ Dispatched(1)) =>
            /\ HandlerCalled(1) <=> MatchesExactly(c.path.s, Url0(1))
            /\ HandlerCalled(1) =>
                  /\ SeenByHandler(1)["url"] = Str(<<"/">>)
                  /\ SeenByHandler(1)["params"] = Obj(ExpectedParams(c.path.s, Url0(1)))

C20_Witness ==
    /\ app = SingleRoute(ObjectCond(Absent, Str(<<"/", ":", "id">>),
                                    Str(<<"/", ":", "key", "/", ":", "id">>)))
    /\ Url0(1) = <<"/", "foo", "/", "bar">>
    /\ Len(log[1]) >= 2 /\ log[1][2].ev = "handler"
    /\ log[1][2].rq["url"] = Str(<<"/">>)
    /\ log[1][2].rq["params"] =
          Obj([n \in {<<"id">>, <<"key">>} |-> IF n = <<"id">> THEN <<"bar">> ELSE <<"foo">>])

----------------------------------------------------------------------------
\* the condition functions of the model
Predicates == {"isWrite", "isFooRoute", "returnsNumber", "returnsString"}

\* the request is as it was received, field by field, presence included
Untouched(rq, r) == \A f \in Fields : rq[f] = Request0(r)[f]

\* C21: a condition function is used as it is and what it returns decides
\* the dispatch: a falsy value is no match; an object is a match and its
\* entries are the state put on the request; a truthy value that is no
\* object (true, a non-empty string, a number) is a match with no state, so
\* the handler is called and no field of the request changes.
C21_PredicateDecides ==
    \A fn \in Predicates :
        (app = SingleRoute(FunctionCond(fn)) /\ Dispatched(1)) =>
            LET state == CallFunction(fn, Request0(1))
            IN  /\ HandlerCalled(1) <=> state.t # "false"
                /\ (HandlerCalled(1) /\ state.t = "object")
                   => SeenByHandler(1) = extend(Request0(1), state.props)
                /\ (HandlerCalled(1) /\ state.t # "object")
                   => /\ SeenByHandler(1) = Request0(1)
                      /\ Untouched(req[1], 1)

\* C21, as index.js 24-33 behaves: the keys of the returned value are taken
\* with Object.keys, and a string has one key for each character, so for a
\* returned "y" the route saves req["0"] and puts it back, which leaves
\* req["0"] on the request with the value undefined.  false, true, a number
\* and an object are as claimed.
C21_StringIsAState ==
    \A fn \in Predicates :
        (app = SingleRoute(FunctionCond(fn)) /\ Dispatched(1)) =>
            LET state == CallFunction(fn, Request0(1))
            IN  /\ HandlerCalled(1) <=> state.t # "false"
                /\ (HandlerCalled(1) /\ state.t = "object")
                   => SeenByHandler(1) = extend(Request0(1), state.props)
                /\ (HandlerCalled(1) /\ state.t \in {"true", "number"})
                   => SeenByHandler(1) = Request0(1) /\ Untouched(req[1], 1)
                /\ (HandlerCalled(1) /\ state.t = "string")
                   => \A i \in Continued(1) :
                         /\ Request0(1)["0"] = Absent
                         /\ log[1][i].rq["0"] = Undefined

C21_Witness ==
    /\ app = SingleRoute(FunctionCond("returnsString"))
    /\ hasNext /\ Finished(1)
    /\ Len(log[1]) = 3
    /\ log[1][1].rq["0"] = Absent
    /\ log[1][2].ev = "handler"
    /\ log[1][3].ev = "out" /\ log[1][3].rq["0"] = Undefined

----------------------------------------------------------------------------
\* the keys of the state the condition of a single route returns for request r
PatchKeys(r) == DOMAIN conditionFn(rev, app.condition, Request0(r)).state.props

\* log[r][i] is a call of the outer continuation of a single route whose
\* handler ran and called next
RoundTrip(r, i) ==
    /\ \E c \in Conditions : app = SingleRoute(c) /\ ~createConditionThrows(c)
    /\ i \in Continued(r)
    /\ \E j \in 1..(i - 1) : log[r][j].ev = "handler"

\* C22: applying a state and restoring what was saved, the handler changing
\* nothing in between, returns every field the state names to what it was,
\* a field the request did not have included: it is saved as absent and is
\* absent again after the restore.
C22_RoundTripExact ==
    \A i \in DOMAIN log[1] :
        RoundTrip(1, i) =>
            \A f \in PatchKeys(1) : log[1][i].rq[f] = Request0(1)[f]

\* C22, as lib/extract.js 5-10 and index.js 33 behave: extract reads
\* object[name], which is undefined for a property the request does not
\* have, and the restore assigns it: every field of the state reads after
\* the restore as it read before, but a field that was absent is now present
\* with the value undefined.
C22_AbsentComesBackUndefined ==
    \A i \in DOMAIN log[1] :
        RoundTrip(1, i) =>
            \A f \in PatchKeys(1) :
                /\ Get(log[1][i].rq, f) = Get(Request0(1), f)
                /\ log[1][i].rq[f] # Absent

C22_Witness ==
    /\ app = SingleRoute(FunctionCond("isFooRoute"))
    /\ Url0(1) = <<"/", "foo", "/", "bar">>
    /\ Len(log[1]) = 3
    /\ log[1][1].rq["isFooRoute"] = Absent
    /\ log[1][2].ev = "handler" /\ log[1][2].rq["isFooRoute"] = TrueVal
    /\ log[1][3].ev = "out"
    /\ log[1][3].rq["url"] = Str(<<"/", "foo", "/", "bar">>)
    /\ log[1][3].rq["isFooRoute"] = Undefined

----------------------------------------------------------------------------
\* log[r][i] is a call of the outer continuation of a route whose handler
\* wrote on the request and called next
WrittenAndUnwound(r, i) ==
    /\ app \in WriterApps
    /\ i \in Continued(r)
    /\ \E j \in 1..(i - 1) : log[r][j].ev = "handler" /\ log[r][j].name = "writer"
    /\ \A j \in 1..(i - 1) : log[r][j].ev = "handler" => log[r][j].name = "writer"
    /\ restores[r] = 1

----------------------------------------------------------------------------
\* the handler of a route threw and the throw has left the route
ThrownOut(r) ==
    /\ app.kind = "route"
    /\ \E j \in DOMAIN log[r] : log[r][j].ev = "handler" /\ log[r][j].err = "thrown"
    /\ ctl[r] = <<>>

\* C24: the state put on the request is taken off on every way out of the
\* handler, also when the handler throws instead of calling next: after the
\* throw has left the route the fields the route overlaid read as before the
\* dispatch.
C24_RestoredAfterThrow ==
    ThrownOut(1) =>
        \A f \in PatchedFields : Get(req[1], f) = Get(Request0(1), f)

\* C24, as index.js 29-35 behaves: the restore is in the continuation only
\* and the call of the handler is in no try block, so after a throw nothing
\* was restored and the request keeps what the handler found on it.
C24_ThrowLeavesState ==
    ThrownOut(1) =>
        /\ restores[1] = 0
        /\ Continued(1) = {}
        /\ req[1] = log[1][Len(log[1])].rq
        /\ log[1][Len(log[1])].ev = "handler"

C24_Witness ==
    /\ app = SingleRoute(StringCond(<<"/", "foo">>))
    /\ Url0(1) = <<"/", "foo", "/", "bar">>
    /\ ThrownOut(1)
    /\ restores[1] = 0
    /\ req[1]["url"] = Str(<<"/", "bar">>)
    /\ req[1]["params"] = Obj(EmptyObj)

----------------------------------------------------------------------------
\* the calls of an outermost continuation of a single route whose handler
\* was not called: the way out of index.js 20-22
NoMatchExits(r) ==
    IF (\E c \in Conditions : app = SingleRoute(c)) /\ ~Matched(r)
    THEN Continued(r)
    ELSE {}

\* C25: a dispatch whose condition does not match leaves the request as it
\* was: when the continuation is called on the way out of a no-match, every
\* field of the request (params and the original path too) has the value and
\* the presence it had before the dispatch, also when a condition function
\* of a combined condition ran.
C25_NoMatchLeavesRequest ==
    \A i \in NoMatchExits(1) : Untouched(log[1][i].rq, 1)

\* C25, as lib/path.js 31-35 behaves: the path condition writes
\* req.originalUrl itself, as soon as its regular expression matches and
\* before anything is known of the other condition functions; index.js saves
\* and restores nothing on a no-match.  Every other field is left alone.
C25_NoMatchKeepsOriginalUrl ==
    \A i \in NoMatchExits(1) :
        /\ \A f \in Fields \ {"originalUrl"} : log[1][i].rq[f] = Request0(1)[f]
        /\ log[1][i].rq["originalUrl"] \in {Request0(1)["originalUrl"], Str(Url0(1))}
        /\ \A c \in CombinedConditions :
              app = SingleRoute(c) =>
                  ( log[1][i].rq["originalUrl"] = Str(Url0(1))
                    <=> \E k \in DOMAIN Evaluators(c) :
                           /\ Evaluators(c)[k].c = "path"
                           /\ IsTruthy(Alone(c, k, 1)) )

C25_Witness ==
    /\ app = SingleRoute(StringCond(<<"GET", " ", "/", "foo">>))
    /\ Method0(1) = <<"POST">> /\ Url0(1) = <<"/", "foo">>
    /\ ~hasNext /\ Finished(1)
    /\ NoMatchExits(1) = {2}
    /\ log[1][2].ev = "send404"
    /\ Request0(1)["originalUrl"] = Absent
    /\ log[1][2].rq["originalUrl"] = Str(<<"/", "foo">>)
    /\ \A f \in Fields \ {"originalUrl"} : log[1][2].rq[f] = Request0(1)[f]

----------------------------------------------------------------------------
\* log[r][i] is what runs after the handler of a route that was given no
\* continuation called the one the route gave it
DefaultAfterHandler(r, i) ==
    /\ app.kind = "route" /\ ~hasNext
    /\ i \in Continued(r)
    /\ \E j \in 1..(i - 1) : log[r][j].ev = "handler"

----------------------------------------------------------------------------
\* route(A, route(B, h)) with a request that A matches and, with the state of
\* A on it, B does not
NestedFallThrough(r) ==
    \E a \in NestedMounts, b \in NestedMounts :
        /\ app = Route(StringCond(a), Route(StringCond(b), Handler("h")))
        /\ IsTruthy(conditionFn(rev, StringCond(a), Request0(r)).state)
        /\ ~IsTruthy(conditionFn(rev, StringCond(b),
                                 extend(conditionFn(rev, StringCond(a), Request0(r)).rq,
                                        conditionFn(rev, StringCond(a), Request0(r)).state.props)).state)

====
